---------------------------- MODULE Spec2Model ----------------------------
(***************************************************************************)
(* A model of src/Native/Unix/System.Native/pal_time.c: the file-time      *)
(* setters SystemNative_UTime / SystemNative_UTimes with their EINTR retry *)
(* loops and the portability fallback lookup, and the timestamp queries    *)
(* SystemNative_GetTimestampResolution / GetTimestamp / GetAbsoluteTime /  *)
(* GetTimebaseInfo under every selection of the #if chain.                 *)
(*                                                                         *)
(* The operating system is the environment: every syscall outcome is an    *)
(* input drawn with \E.  One thread is modelled; a file-time call runs     *)
(* through the program counter pc, the timestamp queries are single steps. *)
(*                                                                         *)
(* Numbers: every value the model computes stays below 2^31, so the        *)
(* (uint64_t), (time_t) and (long) casts of the source are the identity on *)
(* the modelled values and no 64-bit wrap-around is exercised.             *)
(***************************************************************************)
EXTENDS Integers, Sequences, FiniteSets, TLC

VARIABLES
    workload,                     \* which managed component drives this run
    build,                        \* the preprocessor configuration (fixed)
    mono_io_portability_helpers,  \* extern int, line 48 (fixed per process)
    timebase,                     \* what mach_timebase_info reports (fixed)
    monoclock,                    \* CLOCK_MONOTONIC: [tv_sec, tv_nsec]
    wallclock,                    \* gettimeofday:    [tv_sec, tv_usec]
    machclock,                    \* mach_absolute_time: raw ticks
    errno,                        \* the thread's errno
    pc,                           \* position in the running call
    frame,                        \* locals of SystemNative_UTime/UTimes
    h,                            \* history of the running file-time call
    lastOp,                       \* what the last completed call returned
    stamps,                       \* the last two GetTimestamp calls
    firstRes                      \* the first GetTimestampResolution call

vars == <<workload, build, mono_io_portability_helpers, timebase, monoclock,
          wallclock, machclock, errno, pc, frame, h, lastOp, stamps, firstRes>>

env == <<workload, build, mono_io_portability_helpers, timebase>>
clocks == <<monoclock, wallclock, machclock>>

(***************************************************************************)
(* Bounds of the model.                                                    *)
(***************************************************************************)
\* The history counters saturate here (the code itself never counts).
MaxCount == 3
\* The raw mach tick counter runs over 0..MaxMachTicks.
MaxMachTicks == 2

Bump(n) == IF n < MaxCount THEN n + 1 ELSE n

(***************************************************************************)
(* Program constants.                                                      *)
(***************************************************************************)
PORTABILITY_NONE == 0
PORTABILITY_UNKNOWN == 1
PORTABILITY_DRIVE == 2
PORTABILITY_CASE == 4

SecondsToMicroSeconds == 1000000
SecondsToNanoSeconds == 1000000000

NULL == "NULL"

(***************************************************************************)
(* The environment's input sets.                                           *)
(***************************************************************************)
\* errno values a failing utime/utimes can leave.
SyscallErrnos == {"EINTR", "ENOENT", "EACCES"}
\* errno values mono_portability_find_file can leave behind.
LookupErrnos == {"EINTR", "ENOENT", "EACCES"}

Paths == {"/d/File", "/d/file"}

\* The managed caller's UTimBuf and TimeValPair arguments.
UTimBufs == {[AcTime |-> 1, ModTime |-> 2], [AcTime |-> 3, ModTime |-> 3]}
TimeValPairs ==
    {[AcTimeSec |-> 1, AcTimeUSec |-> 5, ModTimeSec |-> 2, ModTimeUSec |-> 6],
     [AcTimeSec |-> 3, AcTimeUSec |-> 0, ModTimeSec |-> 3, ModTimeUSec |-> 0]}

\* The values of mono_io_portability_helpers: PORTABILITY_NONE, the initial
\* PORTABILITY_UNKNOWN, and the combinations of DRIVE and CASE.
PortabilityValues ==
    {PORTABILITY_NONE, PORTABILITY_UNKNOWN, PORTABILITY_DRIVE, PORTABILITY_CASE,
     PORTABILITY_DRIVE + PORTABILITY_CASE}

\* The preprocessor configurations: which of the three primitives the
\* platform has, and whether the portability helpers are compiled out.
Builds ==
    {b \in [HAVE_CLOCK_MONOTONIC : BOOLEAN, HAVE_MACH_ABSOLUTE_TIME : BOOLEAN,
            HAVE_MACH_TIMEBASE_INFO : BOOLEAN, DISABLE_PORTABILITY : BOOLEAN,
            NDEBUG : BOOLEAN] :
        b.HAVE_MACH_TIMEBASE_INFO = b.HAVE_MACH_ABSOLUTE_TIME}

\* mach_timebase_info values (numer, denom >= 1): 1/1 (Intel), 125/3 (Apple
\* silicon), and two more with numer dividing 10^9.
Timebases ==
    {[numer |-> 1, denom |-> 1], [numer |-> 125, denom |-> 3],
     [numer |-> 1, denom |-> 2], [numer |-> 2, denom |-> 1]}

\* Clock readings.
TimeSpecs == [tv_sec : 0 .. 1, tv_nsec : {0, 999999999}]
TimeVals == [tv_sec : 0 .. 1, tv_usec : {0, 999999}]

NoOutcome == [result |-> 0, errno |-> "none"]
NoArgs == [fn |-> "none", path |-> NULL, times |-> <<>>]

IdleFrame ==
    [fn |-> "none", path |-> NULL, temp |-> <<>>, result |-> 0,
     saved_errno |-> "0", located_filename |-> NULL, retval |-> 0]

FreshHistory ==
    [intr1 |-> 0, intr2 |-> 0, nDefinitive |-> 0, nLookups |-> 0,
     first |-> NoOutcome, second |-> NoOutcome, args1 |-> NoArgs,
     args2 |-> NoArgs, lookedUp |-> NULL, lookupErrno |-> "none"]

NoOp ==
    [op |-> "none", ret |-> 0, value |-> 0, numer |-> 0, denom |-> 0,
     ok |-> TRUE, errno |-> "0"]

NoRes ==
    [called |-> FALSE, calls |-> 0, ret |-> 0, resolution |-> 0,
     probeOk |-> FALSE]

(***************************************************************************)
(* Lines 30-57: the portability macros.                                    *)
(***************************************************************************)
IS_PORTABILITY_SET_Always == TRUE

IS_PORTABILITY_SET ==
    IF build.DISABLE_PORTABILITY THEN FALSE ELSE mono_io_portability_helpers > 0

(***************************************************************************)
(* pal_utilities.h: CheckInterrupted(result) is result < 0 && errno==EINTR.*)
(***************************************************************************)
CheckInterrupted(result, err) == result < 0 /\ err = "EINTR"

(***************************************************************************)
(* Lines 67-79: the conversions to the native structures.                  *)
(***************************************************************************)
ConvertUTimBuf(pal) == [actime |-> pal.AcTime, modtime |-> pal.ModTime]

ConvertTimeValPair(pal) ==
    << [tv_sec |-> pal.AcTimeSec, tv_usec |-> pal.AcTimeUSec],
       [tv_sec |-> pal.ModTimeSec, tv_usec |-> pal.ModTimeUSec] >>

(***************************************************************************)
(* The outcome of one utime/utimes syscall: 0, or -1 with errno set.       *)
(***************************************************************************)
SyscallOutcomes ==
    {[result |-> 0, errno |-> "unchanged"]} \cup
    {[result |-> -1, errno |-> e] : e \in SyscallErrnos}

ErrnoAfter(o) == IF o.result = 0 THEN errno ELSE o.errno

(***************************************************************************)
(* Lines 81-86 and 107-112: entry, the conversion into temp.               *)
(***************************************************************************)
Enter(fn, path, temp) ==
    /\ workload = "FileTimes"
    /\ pc = "idle"
    /\ pc' = "loop1"
    /\ frame' = [IdleFrame EXCEPT !.fn = fn, !.path = path, !.temp = temp]
    /\ h' = FreshHistory
    /\ lastOp' = NoOp
    /\ UNCHANGED <<env, clocks, errno, stamps, firstRes>>

SystemNative_UTime_Enter ==
    \E path \in Paths, times \in UTimBufs :
        Enter("utime", path, ConvertUTimBuf(times))

SystemNative_UTimes_Enter ==
    \E path \in Paths, times \in TimeValPairs :
        Enter("utimes", path, ConvertTimeValPair(times))

(***************************************************************************)
(* Lines 89 and 115: while (CheckInterrupted(result = utime(path, &temp))) *)
(***************************************************************************)
FirstLoop_NoRetry(o) ==
    /\ pc = "loop1"
    /\ errno' = ErrnoAfter(o)
    /\ frame' = [frame EXCEPT !.result = o.result]
    /\ pc' = "check"
    /\ h' = [h EXCEPT !.nDefinitive = Bump(@),
                      !.first = [result |-> o.result, errno |-> errno'],
                      !.args1 = [fn |-> frame.fn, path |-> frame.path,
                                 times |-> frame.temp]]
    /\ UNCHANGED <<env, clocks, lastOp, stamps, firstRes>>

FirstLoop(o) ==
    /\ pc = "loop1"
    /\ errno' = ErrnoAfter(o)
    /\ frame' = [frame EXCEPT !.result = o.result]
    /\ IF CheckInterrupted(o.result, errno')
       THEN /\ pc' = "loop1"
            /\ h' = [h EXCEPT !.intr1 = Bump(@)]
       ELSE /\ pc' = "check"
            /\ h' = [h EXCEPT !.nDefinitive = Bump(@),
                              !.first = [result |-> o.result, errno |-> errno'],
                              !.args1 = [fn |-> frame.fn, path |-> frame.path,
                                         times |-> frame.temp]]
    /\ UNCHANGED <<env, clocks, lastOp, stamps, firstRes>>

FirstLoopInterrupted ==
    FirstLoop([result |-> -1, errno |-> "EINTR"])

FirstLoopDefinitive ==
    \E o \in SyscallOutcomes : o.errno # "EINTR" /\ FirstLoop(o)

(***************************************************************************)
(* Lines 90 and 116: the condition of the fallback branch.                 *)
(***************************************************************************)
FallbackCondition_AnyError(result, err) == result = -1 /\ IS_PORTABILITY_SET

FallbackCondition(result, err) ==
    result = -1 /\ err = "ENOENT" /\ IS_PORTABILITY_SET

(***************************************************************************)
(* Lines 104 and 130: return result, when the branch is not taken.         *)
(***************************************************************************)
ReturnFirst_OneOnSuccess ==
    /\ pc = "check"
    /\ ~FallbackCondition(frame.result, errno)
    /\ pc' = "done"
    /\ frame' = [frame EXCEPT !.retval = IF frame.result = 0 THEN 1 ELSE -1]
    /\ UNCHANGED <<env, clocks, errno, h, lastOp, stamps, firstRes>>

ReturnFirst ==
    /\ pc = "check"
    /\ ~FallbackCondition(frame.result, errno)
    /\ pc' = "done"
    /\ frame' = [frame EXCEPT !.retval = frame.result]
    /\ UNCHANGED <<env, clocks, errno, h, lastOp, stamps, firstRes>>

(***************************************************************************)
(* Lines 92-99 and 118-125: saved_errno, mono_portability_find_file, and   *)
(* the NULL branch.  The lookup is external: it returns NULL or a path and *)
(* may leave any errno.                                                    *)
(***************************************************************************)
LookupFailed_NoRestore(e) ==
    /\ pc = "check"
    /\ FallbackCondition(frame.result, errno)
    /\ errno' = e
    /\ frame' = [frame EXCEPT !.saved_errno = errno, !.retval = -1]
    /\ h' = [h EXCEPT !.nLookups = Bump(@), !.lookupErrno = e]
    /\ pc' = "done"
    /\ UNCHANGED <<env, clocks, lastOp, stamps, firstRes>>

LookupFailed(e) ==
    /\ pc = "check"
    /\ FallbackCondition(frame.result, errno)
    /\ errno' = errno              \* errno = saved_errno, after the lookup left e
    /\ frame' = [frame EXCEPT !.saved_errno = errno, !.retval = -1]
    /\ h' = [h EXCEPT !.nLookups = Bump(@), !.lookupErrno = e]
    /\ pc' = "done"
    /\ UNCHANGED <<env, clocks, lastOp, stamps, firstRes>>

LookupFound(located, e) ==
    /\ pc = "check"
    /\ FallbackCondition(frame.result, errno)
    /\ errno' = e
    /\ frame' = [frame EXCEPT !.saved_errno = errno,
                              !.located_filename = located]
    /\ h' = [h EXCEPT !.nLookups = Bump(@), !.lookupErrno = e,
                      !.lookedUp = located]
    /\ pc' = "loop2"
    /\ UNCHANGED <<env, clocks, lastOp, stamps, firstRes>>

FallbackLookupNull ==
    \E e \in LookupErrnos : LookupFailed(e)

FallbackLookupFound ==
    \E located \in Paths, e \in LookupErrnos : LookupFound(located, e)

(***************************************************************************)
(* Lines 101-104 and 127-130: the second loop, g_free, return result.      *)
(* g_free is taken to leave errno alone.                                   *)
(***************************************************************************)
SecondPath_Original == frame.path

SecondPath == frame.located_filename

AfterSecond_LookupAgain(result, err) ==
    IF result = -1 /\ err = "ENOENT" THEN "check" ELSE "done"

AfterSecond(result, err) == "done"

SecondLoop(o) ==
    /\ pc = "loop2"
    /\ errno' = ErrnoAfter(o)
    /\ frame' = [frame EXCEPT !.result = o.result,
                    !.retval = IF CheckInterrupted(o.result, errno')
                               THEN @ ELSE o.result]
    /\ IF CheckInterrupted(o.result, errno')
       THEN /\ pc' = "loop2"
            /\ h' = [h EXCEPT !.intr2 = Bump(@)]
       ELSE /\ pc' = AfterSecond(o.result, errno')
            /\ h' = [h EXCEPT !.nDefinitive = Bump(@),
                              !.second = [result |-> o.result, errno |-> errno'],
                              !.args2 = [fn |-> frame.fn, path |-> SecondPath,
                                         times |-> frame.temp]]
    /\ UNCHANGED <<env, clocks, lastOp, stamps, firstRes>>

SecondLoopInterrupted ==
    SecondLoop([result |-> -1, errno |-> "EINTR"])

SecondLoopDefinitive ==
    \E o \in SyscallOutcomes : o.errno # "EINTR" /\ SecondLoop(o)

(***************************************************************************)
(* The caller takes the return value; the frame is gone.                   *)
(***************************************************************************)
\* The outcome of the last syscall the call issued.
FinalOutcome == IF h.second # NoOutcome THEN h.second ELSE h.first

Returned ==
    /\ pc = "done"
    /\ pc' = "idle"
    /\ lastOp' = [NoOp EXCEPT !.op = frame.fn, !.ret = frame.retval,
                              !.ok = (FinalOutcome.result = 0),
                              !.errno = errno]
    /\ frame' = IdleFrame
    /\ h' = FreshHistory
    /\ UNCHANGED <<env, clocks, errno, stamps, firstRes>>

(***************************************************************************)
(* The clocks of the platform.  CLOCK_MONOTONIC and mach_absolute_time     *)
(* only move forward; the wall clock behind gettimeofday moves forward     *)
(* with time and can be set to any value (settimeofday, an NTP step).      *)
(***************************************************************************)
Before(a, b, sub) ==
    \/ a.tv_sec < b.tv_sec
    \/ a.tv_sec = b.tv_sec /\ a[sub] < b[sub]

TimestampIdle == workload = "Timestamps" /\ pc = "idle"

MonotonicClockAdvances ==
    /\ TimestampIdle
    /\ build.HAVE_CLOCK_MONOTONIC
    /\ \E t \in TimeSpecs : Before(monoclock, t, "tv_nsec") /\ monoclock' = t
    /\ UNCHANGED <<env, wallclock, machclock, errno, pc, frame, h, lastOp,
                   stamps, firstRes>>

MachClockAdvances ==
    /\ TimestampIdle
    /\ build.HAVE_MACH_ABSOLUTE_TIME
    /\ machclock < MaxMachTicks
    /\ machclock' = machclock + 1
    /\ UNCHANGED <<env, monoclock, wallclock, errno, pc, frame, h, lastOp,
                   stamps, firstRes>>

WallClockChanges ==
    /\ TimestampIdle
    /\ ~build.HAVE_CLOCK_MONOTONIC /\ ~build.HAVE_MACH_ABSOLUTE_TIME
    /\ \E t \in TimeVals : t # wallclock /\ wallclock' = t
    /\ UNCHANGED <<env, monoclock, machclock, errno, pc, frame, h, lastOp,
                   stamps, firstRes>>

(***************************************************************************)
(* Lines 134-172: SystemNative_GetTimestampResolution.  probeOk is the     *)
(* outcome of clock_gettime(CLOCK_MONOTONIC) or mach_timebase_info; ts is  *)
(* what the probe read.                                                    *)
(***************************************************************************)
GetTimestampResolution_ProbeValue(probeOk, ts) ==
    IF build.HAVE_CLOCK_MONOTONIC
    THEN IF probeOk THEN [ret |-> 1, resolution |-> ts.tv_nsec]
                    ELSE [ret |-> 0, resolution |-> 0]
    ELSE IF build.HAVE_MACH_ABSOLUTE_TIME
    THEN IF probeOk
         THEN [ret |-> 1,
               resolution |-> SecondsToNanoSeconds *
                                  (timebase.denom \div timebase.numer)]
         ELSE [ret |-> 0, resolution |-> 0]
    ELSE [ret |-> 1, resolution |-> wallclock.tv_usec]

GetTimestampResolution(probeOk, ts) ==
    IF build.HAVE_CLOCK_MONOTONIC
    THEN IF probeOk THEN [ret |-> 1, resolution |-> SecondsToNanoSeconds]
                    ELSE [ret |-> 0, resolution |-> 0]
    ELSE IF build.HAVE_MACH_ABSOLUTE_TIME
    THEN IF probeOk
         THEN [ret |-> 1,
               resolution |-> SecondsToNanoSeconds *
                                  (timebase.denom \div timebase.numer)]
         ELSE [ret |-> 0, resolution |-> 0]
    ELSE [ret |-> 1, resolution |-> SecondsToMicroSeconds]

\* The primitive each function reads under the #if chain.
ResolutionPrimitive ==
    IF build.HAVE_CLOCK_MONOTONIC THEN "clock_gettime"
    ELSE IF build.HAVE_MACH_ABSOLUTE_TIME THEN "mach_absolute_time"
    ELSE "gettimeofday"

TimestampPrimitive ==
    IF build.HAVE_CLOCK_MONOTONIC THEN "clock_gettime"
    ELSE IF build.HAVE_MACH_ABSOLUTE_TIME THEN "mach_absolute_time"
    ELSE "gettimeofday"

\* Whether the function consults the OS at all in this build.
ResolutionProbes == build.HAVE_CLOCK_MONOTONIC \/ build.HAVE_MACH_ABSOLUTE_TIME

SystemNative_GetTimestampResolution ==
    /\ TimestampIdle
    /\ \E probeOk \in (IF ResolutionProbes THEN BOOLEAN ELSE {TRUE}) :
         LET r == GetTimestampResolution(probeOk, monoclock) IN
         /\ lastOp' = [NoOp EXCEPT !.op = "GetTimestampResolution",
                                   !.ret = r.ret, !.value = r.resolution,
                                   !.ok = probeOk]
         /\ firstRes' = IF firstRes.called
                        THEN [firstRes EXCEPT !.calls = Bump(@)]
                        ELSE [called |-> TRUE, calls |-> 1, ret |-> r.ret,
                              resolution |-> r.resolution, probeOk |-> probeOk]
         /\ errno' = IF probeOk THEN errno ELSE "EINVAL"
    /\ UNCHANGED <<env, clocks, pc, frame, h, stamps>>

(***************************************************************************)
(* Lines 174-204: SystemNative_GetTimestamp.  ok is the outcome of         *)
(* clock_gettime or gettimeofday; when clock_gettime fails the assert of   *)
(* line 181 stops a debug build, and a release build reads ts              *)
(* uninitialised: garbage stands for what it holds.                        *)
(***************************************************************************)
GetTimestamp(ok, garbage) ==
    IF build.HAVE_CLOCK_MONOTONIC
    THEN LET ts == IF ok THEN monoclock ELSE garbage IN
         [ret |-> 1,
          value |-> ts.tv_sec * SecondsToNanoSeconds + ts.tv_nsec]
    ELSE IF build.HAVE_MACH_ABSOLUTE_TIME
    THEN [ret |-> 1, value |-> machclock]
    ELSE IF ok
    THEN [ret |-> 1,
          value |-> wallclock.tv_sec * SecondsToMicroSeconds
                        + wallclock.tv_usec]
    ELSE [ret |-> 0, value |-> 0]

TimestampFails == ~build.HAVE_CLOCK_MONOTONIC => ~build.HAVE_MACH_ABSOLUTE_TIME

NoStamp == [valid |-> FALSE, ret |-> 0, value |-> 0, ok |-> FALSE]

Record(r, ok) ==
    [cur |-> [valid |-> TRUE, ret |-> r.ret, value |-> r.value, ok |-> ok],
     prev |-> stamps.cur]

GetTimestampReturns(ok, garbage) ==
    LET r == GetTimestamp(ok, garbage) IN
    /\ lastOp' = [NoOp EXCEPT !.op = "GetTimestamp", !.ret = r.ret,
                              !.value = r.value, !.ok = ok]
    /\ stamps' = Record(r, ok)
    /\ errno' = IF ok THEN errno ELSE "EINVAL"
    /\ UNCHANGED <<env, clocks, pc, frame, h, firstRes>>

SystemNative_GetTimestamp ==
    /\ TimestampIdle
    /\ \/ GetTimestampReturns(TRUE, monoclock)
       \/ /\ TimestampFails
          /\ build.HAVE_CLOCK_MONOTONIC => build.NDEBUG
          /\ \E garbage \in TimeSpecs : GetTimestampReturns(FALSE, garbage)

\* assert(result == 0) of line 181 in a build without NDEBUG.
GetTimestampAsserts ==
    /\ TimestampIdle
    /\ build.HAVE_CLOCK_MONOTONIC /\ ~build.NDEBUG
    /\ pc' = "aborted"
    /\ errno' = "EINVAL"
    /\ UNCHANGED <<env, clocks, frame, h, lastOp, stamps, firstRes>>

(***************************************************************************)
(* Lines 206-218: SystemNative_GetAbsoluteTime.                            *)
(***************************************************************************)
GetAbsoluteTime ==
    IF build.HAVE_MACH_ABSOLUTE_TIME
    THEN [ret |-> 1, value |-> machclock]
    ELSE [ret |-> 0, value |-> 0]

SystemNative_GetAbsoluteTime ==
    /\ TimestampIdle
    /\ lastOp' = [NoOp EXCEPT !.op = "GetAbsoluteTime",
                              !.ret = GetAbsoluteTime.ret,
                              !.value = GetAbsoluteTime.value,
                              !.ok = build.HAVE_MACH_ABSOLUTE_TIME]
    /\ UNCHANGED <<env, clocks, errno, pc, frame, h, stamps, firstRes>>

(***************************************************************************)
(* Lines 220-239: SystemNative_GetTimebaseInfo.  kernOk is whether         *)
(* mach_timebase_info returns KERN_SUCCESS.                                *)
(***************************************************************************)
GetTimebaseInfo(kernOk) ==
    IF build.HAVE_MACH_TIMEBASE_INFO /\ kernOk
    THEN [ret |-> 1, numer |-> timebase.numer, denom |-> timebase.denom]
    ELSE [ret |-> 1, numer |-> 1, denom |-> 1]

SystemNative_GetTimebaseInfo ==
    /\ TimestampIdle
    /\ \E kernOk \in BOOLEAN :
         /\ ~kernOk => build.HAVE_MACH_TIMEBASE_INFO /\ build.NDEBUG
         /\ lastOp' = [NoOp EXCEPT !.op = "GetTimebaseInfo",
                                   !.ret = GetTimebaseInfo(kernOk).ret,
                                   !.numer = GetTimebaseInfo(kernOk).numer,
                                   !.denom = GetTimebaseInfo(kernOk).denom,
                                   !.ok = kernOk]
    /\ UNCHANGED <<env, clocks, errno, pc, frame, h, stamps, firstRes>>

\* assert(ret == KERN_SUCCESS) of line 225 in a build without NDEBUG.
GetTimebaseInfoAsserts ==
    /\ TimestampIdle
    /\ build.HAVE_MACH_TIMEBASE_INFO /\ ~build.NDEBUG
    /\ pc' = "aborted"
    /\ UNCHANGED <<env, clocks, errno, frame, h, lastOp, stamps, firstRes>>

(***************************************************************************)
(* The specification.  A run drives either the file-time setters or the    *)
(* timestamp queries; the two families share no state but errno.  The      *)
(* flags a family never reads are held at one value.                       *)
(***************************************************************************)
FileTimesEnv ==
    /\ workload = "FileTimes"
    /\ build \in {b \in Builds : /\ b.HAVE_CLOCK_MONOTONIC /\ ~b.NDEBUG
                                 /\ ~b.HAVE_MACH_ABSOLUTE_TIME}
    /\ mono_io_portability_helpers \in
          IF build.DISABLE_PORTABILITY THEN {PORTABILITY_NONE}
          ELSE PortabilityValues
    /\ timebase = [numer |-> 1, denom |-> 1]

TimestampsEnv ==
    /\ workload = "Timestamps"
    /\ build \in {b \in Builds : b.DISABLE_PORTABILITY}
    /\ mono_io_portability_helpers = PORTABILITY_NONE
    /\ timebase \in IF build.HAVE_MACH_ABSOLUTE_TIME THEN Timebases
                    ELSE {[numer |-> 1, denom |-> 1]}

Init ==
    /\ FileTimesEnv \/ TimestampsEnv
    /\ monoclock = [tv_sec |-> 0, tv_nsec |-> 0]
    /\ wallclock = [tv_sec |-> 0, tv_usec |-> 0]
    /\ machclock = 0
    /\ errno = "0"
    /\ pc = "idle"
    /\ frame = IdleFrame
    /\ h = FreshHistory
    /\ lastOp = NoOp
    /\ stamps = [cur |-> NoStamp, prev |-> NoStamp]
    /\ firstRes = NoRes

Next ==
    \/ SystemNative_UTime_Enter
    \/ SystemNative_UTimes_Enter
    \/ FirstLoopInterrupted
    \/ FirstLoopDefinitive
    \/ ReturnFirst
    \/ FallbackLookupNull
    \/ FallbackLookupFound
    \/ SecondLoopInterrupted
    \/ SecondLoopDefinitive
    \/ Returned
    \/ MonotonicClockAdvances
    \/ MachClockAdvances
    \/ WallClockChanges
    \/ SystemNative_GetTimestampResolution
    \/ SystemNative_GetTimestamp
    \/ GetTimestampAsserts
    \/ SystemNative_GetAbsoluteTime
    \/ SystemNative_GetTimebaseInfo
    \/ GetTimebaseInfoAsserts

Spec == Init /\ [][Next]_vars

\* The OS does not interrupt the same syscall forever, the lookup returns,
\* and a call that has its result returns it.
LiveSpec ==
    /\ Spec
    /\ WF_vars(FirstLoopDefinitive)
    /\ WF_vars(SecondLoopDefinitive)
    /\ WF_vars(ReturnFirst)
    /\ WF_vars(FallbackLookupNull \/ FallbackLookupFound)

(***************************************************************************)
(*                              The claims                                 *)
(***************************************************************************)
Failed(e) == [result |-> -1, errno |-> e]
InCall == pc \in {"loop1", "check", "loop2"}

\* C1: SystemNative_UTime / SystemNative_UTimes never return -1 with errno
\* equal to EINTR, however many interruptions precede or follow the fallback
\* lookup and whatever errno the lookup leaves.
C1_NeverReturnsInterrupted ==
    /\ pc = "done" => ~(frame.retval = -1 /\ errno = "EINTR")
    /\ lastOp.op \in {"utime", "utimes"} =>
          ~(lastOp.ret = -1 /\ lastOp.errno = "EINTR")

C1_Witness ==
    /\ pc = "done"
    /\ frame.retval = -1
    /\ h.intr1 >= 2
    /\ h.intr2 >= 2
    /\ h.lookupErrno = "EINTR"

\* C2: when the first definitive outcome is ENOENT and the lookup finds no
\* match or is not consulted, the call returns -1 with errno ENOENT whatever
\* errno the lookup left; it never returns 0.
C2_NotFoundIsReported ==
    (pc = "done" /\ h.first = Failed("ENOENT") /\ h.lookedUp = NULL) =>
        /\ frame.retval = -1
        /\ errno = "ENOENT"

C2_Witness ==
    /\ pc = "done"
    /\ h.first = Failed("ENOENT")
    /\ h.nLookups = 1
    /\ h.lookedUp = NULL
    /\ h.lookupErrno = "EACCES"

\* C3 as claimed: whenever the first definitive outcome is ENOENT the lookup
\* is consulted exactly once, for every value of mono_io_portability_helpers.
C3_LookupForEveryConfiguration ==
    (pc = "done" /\ h.first = Failed("ENOENT")) => h.nLookups = 1

\* C3 as amended: when the first definitive outcome is ENOENT the lookup is
\* consulted exactly once if the helpers are compiled in and
\* mono_io_portability_helpers > 0, and not at all otherwise.
C3_LookupOnlyWhenPortabilitySet ==
    /\ h.nLookups <= 1
    /\ (pc = "done" /\ h.first = Failed("ENOENT")) =>
          h.nLookups =
             IF ~build.DISABLE_PORTABILITY /\ mono_io_portability_helpers > 0
             THEN 1 ELSE 0

C3_Witness ==
    /\ pc = "done"
    /\ h.first = Failed("ENOENT")
    /\ mono_io_portability_helpers = PORTABILITY_CASE
    /\ h.nLookups = 1

\* C4: a first definitive failure other than ENOENT is returned as -1 with
\* exactly that errno, and a first definitive success as 0; in both cases no
\* lookup is made and no further syscall is issued.
C4_OtherOutcomesPropagate ==
    /\ (pc = "done" /\ h.first.result = -1 /\ h.first.errno # "ENOENT") =>
          /\ frame.retval = -1
          /\ errno = h.first.errno
          /\ h.nLookups = 0 /\ h.nDefinitive = 1 /\ h.intr2 = 0
    /\ (pc = "done" /\ h.first.result = 0) =>
          /\ frame.retval = 0
          /\ h.nLookups = 0 /\ h.nDefinitive = 1 /\ h.intr2 = 0

C4_Witness ==
    /\ pc = "done"
    /\ h.first = Failed("EACCES")
    /\ h.intr1 >= 1
    /\ IS_PORTABILITY_SET

\* C5 as claimed: of two successive successful SystemNative_GetTimestamp
\* calls the later value is >= the earlier one, under every selection of the
\* primitive.
C5_TimestampsNonDecreasing ==
    ( /\ stamps.prev.valid /\ stamps.prev.ret = 1 /\ stamps.prev.ok
      /\ stamps.cur.valid /\ stamps.cur.ret = 1 /\ stamps.cur.ok ) =>
        stamps.cur.value >= stamps.prev.value

\* C6 as claimed: every SystemNative_GetTimestampResolution call writes the
\* value and returns the code of the first call, whatever its probe does.
C6_ResolutionConstant ==
    (firstRes.called /\ lastOp.op = "GetTimestampResolution") =>
        /\ lastOp.ret = firstRes.ret
        /\ lastOp.value = firstRes.resolution

\* C6 as amended: every call whose probe has the outcome the first call's
\* probe had writes the value and returns the code of the first call.
C6_ResolutionConstantPerProbeOutcome ==
    ( /\ firstRes.called /\ lastOp.op = "GetTimestampResolution"
      /\ lastOp.ok = firstRes.probeOk ) =>
        /\ lastOp.ret = firstRes.ret
        /\ lastOp.value = firstRes.resolution

C6_Witness ==
    /\ firstRes.calls >= 2
    /\ firstRes.probeOk
    /\ lastOp.op = "GetTimestampResolution"
    /\ lastOp.ok
    /\ lastOp.value = SecondsToNanoSeconds
    /\ monoclock.tv_nsec # 0

\* The rate at which the selected primitive's values advance: nanoseconds,
\* microseconds, or mach ticks of numer/denom nanoseconds each (every numer
\* of Timebases divides 10^9, so the quotient is exact).
TicksPerSecond ==
    IF build.HAVE_CLOCK_MONOTONIC THEN SecondsToNanoSeconds
    ELSE IF build.HAVE_MACH_ABSOLUTE_TIME
    THEN (SecondsToNanoSeconds \div timebase.numer) * timebase.denom
    ELSE SecondsToMicroSeconds

\* C7 as claimed: both functions read the same primitive, and a resolution
\* returned with 1 is the rate of the timestamps, never 0.
C7_ResolutionIsTickRate ==
    (lastOp.op = "GetTimestampResolution" /\ lastOp.ret = 1) =>
        /\ ResolutionPrimitive = TimestampPrimitive
        /\ lastOp.value = TicksPerSecond
        /\ lastOp.value # 0

\* C8 as claimed: only the resolution query returns 0; GetTimestamp and the
\* file-time setters return 1 on success and -1 on error.
C8_ZeroOnlyFromResolution ==
    /\ (lastOp.op # "none" /\ lastOp.ret = 0) =>
          lastOp.op = "GetTimestampResolution"
    /\ lastOp.op \in {"GetTimestamp", "utime", "utimes"} =>
          lastOp.ret = IF lastOp.ok THEN 1 ELSE -1

\* C8 as amended: the file-time setters return 0 on success and -1 on error;
\* GetTimestamp returns 1 whenever its primitive succeeds and never -1 (0
\* only when gettimeofday fails); the resolution query returns 1 or 0;
\* GetAbsoluteTime returns 1 with mach_absolute_time and 0 without;
\* GetTimebaseInfo returns 1.
C8_ReturnCodes ==
    /\ lastOp.op \in {"utime", "utimes"} =>
          lastOp.ret = IF lastOp.ok THEN 0 ELSE -1
    /\ lastOp.op = "GetTimestamp" =>
          /\ lastOp.ret \in {0, 1}
          /\ lastOp.ok => lastOp.ret = 1
          /\ lastOp.ret = 0 =>
                /\ ~lastOp.ok
                /\ ~build.HAVE_CLOCK_MONOTONIC
                /\ ~build.HAVE_MACH_ABSOLUTE_TIME
    /\ lastOp.op = "GetTimestampResolution" =>
          lastOp.ret = IF lastOp.ok THEN 1 ELSE 0
    /\ lastOp.op = "GetAbsoluteTime" =>
          lastOp.ret = IF build.HAVE_MACH_ABSOLUTE_TIME THEN 1 ELSE 0
    /\ lastOp.op = "GetTimebaseInfo" => lastOp.ret = 1

C8_Witness ==
    /\ lastOp.op = "utimes"
    /\ lastOp.ok
    /\ lastOp.ret = 0

\* C9: when the first definitive outcome is ENOENT and the lookup returns a
\* path, the syscall is re-issued on that path with the times of the first
\* attempt, the call returns that syscall's definitive result and errno, and
\* no second lookup is made even if it fails with ENOENT.
C9_RetryOnLocatedPath ==
    (pc = "done" /\ h.first = Failed("ENOENT") /\ h.lookedUp # NULL) =>
        /\ h.args2.path = h.lookedUp
        /\ h.args2.fn = h.args1.fn
        /\ h.args2.times = h.args1.times
        /\ frame.retval = h.second.result
        /\ errno = h.second.errno
        /\ h.nLookups = 1
        /\ h.nDefinitive = 2

C9_Witness ==
    /\ pc = "done"
    /\ h.lookedUp # NULL
    /\ h.lookedUp # h.args1.path
    /\ h.second = Failed("ENOENT")
    /\ h.args1.fn = "utime"

\* C10: if the OS does not interrupt the same syscall forever, every call
\* returns, after at most two definitive outcomes and at most one lookup; an
\* interrupted attempt never ends the call.
C10_CallReturns ==
    /\ InCall ~> (pc = "done")
    /\ [](h.nDefinitive <= 2 /\ h.nLookups <= 1)
    /\ [][(pc \in {"loop1", "loop2"} /\ frame'.result = -1
              /\ errno' = "EINTR") => pc' = pc]_vars

C10_Witness ==
    /\ pc = "done"
    /\ h.nDefinitive = 2
    /\ h.nLookups = 1
    /\ h.intr1 >= 1
    /\ h.intr2 >= 1
    /\ frame.retval = 0
=============================================================================
